---- MODULE Spec2Model ----
(***************************************************************************)
(* The Canvas gateway (canvas_request) and the missing-assignments         *)
(* aggregator (get_missing_assignments) of src/main.py.                    *)
(*                                                                         *)
(* Python values are modelled as follows.  An optional value (None or a    *)
(* value) is a sequence of length at most one: None is <<>> and x is       *)
(* Some(x).  A dict is a record; a key that is absent from the dict is a   *)
(* field that is absent from the record's DOMAIN.  A query-parameter       *)
(* mapping is the set of <<key, value>> pairs that requests puts on the    *)
(* query string (a list value gives one pair per element).                 *)
(***************************************************************************)
EXTENDS Integers, Sequences, FiniteSets, TLC

VARIABLES
    pc,                  \* per request: position in get_missing_assignments
    institute_url,       \* per request: argument institute_url
    token,               \* per request: argument token
    courses_response,    \* per request: local courses_response (optional)
    idx,                 \* per request: courses of the for loop already taken
    missing_assignments, \* per request: local missing_assignments
    result,              \* per request: how the handler ended (optional)
    calls,               \* per request: history of the HTTP requests it issued
    failed,              \* per request: history, loop positions whose call failed
    upstream_missing,    \* per request: history, see Flagged
    gw,                  \* one direct call of canvas_request
    flt                  \* one run of the filter loop on one response

vars == <<pc, institute_url, token, courses_response, idx, missing_assignments,
          result, calls, failed, upstream_missing, gw, flt>>

aggVars == <<pc, institute_url, token, courses_response, idx, missing_assignments,
             result, calls, failed, upstream_missing>>

---------------------------------------------------------------------------
(* Python values *)

None == <<>>

Some(x) == <<x>>

HasKey(d, k) == k \in DOMAIN d

\* dict.get(k, default)
Get(d, k, default) == IF k \in DOMAIN d THEN d[k] ELSE default

---------------------------------------------------------------------------
(* Bounds and input universes *)

\* Longest course list the upstream returns; the courses are numbered from it.
MaxCourses == 3

Urls == {"https://a.example", "https://b.example"}

Tokens == {"tokA", "tokB"}

Verbs == {"GET", "POST", "PUT", "DELETE"}

CourseName(i) ==
    CASE i = 1 -> "Math" [] i = 2 -> "Bio" [] i = 3 -> "Art" [] OTHER -> "Course"

Courses == {[id |-> 10 * i, name |-> CourseName(i)] : i \in 1..MaxCourses}

AssignmentIds == {100, 200}

AssignmentName(i) == IF i = 100 THEN "HW1" ELSE "HW2"

\* The embedded submission object: the flag may be true, false or absent.
Submissions ==
    [workflow_state : {"unsubmitted"}, missing : BOOLEAN]
        \cup [workflow_state : {"unsubmitted"}]

\* Assignment 100 carries due_at, assignment 200 does not; submission and
\* points_possible are each present or absent.
AssignmentsWithId(i) ==
    LET base == IF i = 100
                THEN {[id |-> i, name |-> AssignmentName(i), due_at |-> "2024-01-01"]}
                ELSE {[id |-> i, name |-> AssignmentName(i)]}
        withPts == {a @@ [points_possible |-> 10] : a \in base}
        noSub == base \cup withPts
    IN  noSub \cup {a @@ [submission |-> s] : a \in noSub, s \in Submissions}

Assignments == UNION {AssignmentsWithId(i) : i \in AssignmentIds}

\* Sequences over S in which no two elements have the same id, up to length n.
RECURSIVE ListsById(_, _)
ListsById(S, n) ==
    IF n = 0 THEN {<<>>}
    ELSE LET shorter == ListsById(S, n - 1)
             Fresh(l) == {y \in S : \A k \in 1..Len(l) : l[k].id # y.id}
         IN  shorter \cup UNION {{Append(l, x) : x \in Fresh(l)} : l \in shorter}

CourseLists == ListsById(Courses, MaxCourses)

AssignmentLists == ListsById(Assignments, Cardinality(AssignmentIds))

---------------------------------------------------------------------------
(* The upstream: what one HTTP attempt meets *)

\* kind: the transport raised ConnectionError or Timeout, or a response came
\* back with a status and a body that parses as JSON (json_ok) or does not.
TransportFailures ==
    [kind : {"ConnectionError", "Timeout"}, status : {0}, json_ok : {FALSE},
     body : {<<>>}]

ErrorStatuses == [kind : {"response"}, status : {401, 500}, json_ok : {TRUE},
                  body : {<<>>}]

BadBodies == [kind : {"response"}, status : {200}, json_ok : {FALSE}, body : {<<>>}]

FailureOutcomes == TransportFailures \cup ErrorStatuses \cup BadBodies

OkOutcome(json) == [kind |-> "response", status |-> 200, json_ok |-> TRUE, body |-> json]

CourseOutcomes == FailureOutcomes \cup {OkOutcome(l) : l \in CourseLists}

AssignmentOutcomes == FailureOutcomes \cup {OkOutcome(l) : l \in AssignmentLists}

---------------------------------------------------------------------------
(* canvas_request *)

CanvasResponse(success, data, error) ==
    [success |-> success, data |-> data, error |-> error]

\* How a call ends: it returns a value or raises an exception.
Return(v) == [raised |-> None, value |-> Some(v)]

Raise(e) == [raised |-> Some(e), value |-> None]

\* The classes of requests.exceptions.RequestException that the outcomes raise.
RequestException == {"ConnectionError", "Timeout", "HTTPError", "JSONDecodeError"}

\* str(e)
Str(e) == e \o ": request failed"

\* The request that requests.get/post/put/delete puts on the wire.
HttpRequest(url, tok, endpoint, method, params, data) ==
    [verb    |-> method,
     url     |-> url \o "/api/v1/" \o endpoint,
     headers |-> [Authorization |-> "Bearer " \o tok],
     params  |-> IF method = "GET" THEN params ELSE None,
     json    |-> IF method \in {"POST", "PUT"} THEN data ELSE None]

\* response.raise_for_status(); response.json()
TryBody(outcome) ==
    IF outcome.kind # "response" THEN Raise(outcome.kind)
    ELSE IF outcome.status >= 400 THEN Raise("HTTPError")
    ELSE IF ~outcome.json_ok THEN Raise("JSONDecodeError")
    ELSE Return(CanvasResponse(TRUE, Some(outcome.body), None))

\* Faulty variant: except requests.exceptions.HTTPError as e
CaughtOnlyHTTPError(e) == e = "HTTPError"

\* except requests.exceptions.RequestException as e
Caught(e) == e \in RequestException

\* Faulty variant: the failure envelope keeps a data list.
FailureWithPartialData(e) == CanvasResponse(FALSE, Some(<<>>), Some(Str(e)))

\* CanvasResponse(success=False, data=None, error=str(e))
FailureEnvelope(e) == CanvasResponse(FALSE, None, Some(Str(e)))

\* The whole call given what its one HTTP attempt meets.
canvas_request(outcome) ==
    LET r == TryBody(outcome)
    IN  IF r.raised # None /\ Caught(r.raised[1])
        THEN Return(FailureEnvelope(r.raised[1]))
        ELSE r

---------------------------------------------------------------------------
(* A direct call of canvas_request with any verb *)

ParamSets == {None, Some({<<"enrollment_state", "active">>}),
              Some({<<"include", "submission">>, <<"per_page", "50">>})}

Bodies == {None, Some([name |-> "HW1"])}

Endpoints == {"courses", "courses/10/assignments"}

GwArgs == [institute_url : Urls, token : Tokens, endpoint : Endpoints,
           method : Verbs, params : ParamSets, data : Bodies]

\* http and outcome are history: the requests sent, what the attempt met.
GwIdle == [pc |-> "idle", args |-> None, http |-> <<>>, outcome |-> None,
           result |-> None]

GwInit == gw \in {[pc |-> "called", args |-> Some(a), http |-> <<>>,
                   outcome |-> None, result |-> None] : a \in GwArgs}

\* Lines 25-36: build the URL and the header, send the request.
GwSend ==
    /\ gw.pc = "called"
    /\ LET a == gw.args[1]
       IN  gw' = [gw EXCEPT !.pc = "sent",
                            !.http = Append(@, HttpRequest(a.institute_url, a.token,
                                               a.endpoint, a.method, a.params, a.data))]
    /\ UNCHANGED <<aggVars, flt>>

\* Lines 38-41: the attempt ends and the call returns or raises.
GwOutcomes == FailureOutcomes \cup {OkOutcome(l) : l \in ListsById(Courses, 1)}

GwComplete(outcome) ==
    /\ gw.pc = "sent"
    /\ gw' = [gw EXCEPT !.pc = "done", !.outcome = Some(outcome),
                         !.result = Some(canvas_request(outcome))]
    /\ UNCHANGED <<aggVars, flt>>

---------------------------------------------------------------------------
(* get_missing_assignments *)

Requests == DOMAIN pc

\* institute_url=institute_url in the two calls of canvas_request
CallUrl(r) == institute_url[r]

\* Faulty variant: a process-wide session that keeps the first caller's token.
FirstCallersToken(r) == token[CHOOSE q \in Requests : \A p \in Requests : q <= p]

\* token=token in the two calls of canvas_request
CallToken(r) == token[r]

\* endpoint="courses", params={"enrollment_state": "active"}
CoursesCall(r) ==
    HttpRequest(CallUrl(r), CallToken(r), "courses", "GET",
                Some({<<"enrollment_state", "active">>}), None)

\* endpoint=f"courses/{course['id']}/assignments", params={"include": ["submission"]}
AssignmentsCall(r, course) ==
    HttpRequest(CallUrl(r), CallToken(r),
                "courses/" \o ToString(course.id) \o "/assignments", "GET",
                Some({<<"include", "submission">>}), None)

\* 'submission' in assignment and assignment['submission'].get('missing', False)
Qualifies(assignment) ==
    /\ HasKey(assignment, "submission")
    /\ Get(assignment.submission, "missing", FALSE)

\* The dict literal of the append; assignment['points_possible'] must exist.
Record(course, assignment) ==
    [course_name     |-> course.name,
     course_id       |-> course.id,
     assignment_name |-> assignment.name,
     assignment_id   |-> assignment.id,
     due_date        |-> IF HasKey(assignment, "due_at")
                         THEN Some(assignment.due_at) ELSE None,
     points_possible |-> assignment.points_possible]

\* Faulty variant: missing_assignments.insert(0, {...})
EmitFirst(acc, rec) == <<rec>> \o acc

\* missing_assignments.append({...})
Emit(acc, rec) == Append(acc, rec)

\* The inner for loop over one response: the list it leaves in
\* missing_assignments and the exception that ended it, if one did.
RECURSIVE FilterLoop(_, _, _)
FilterLoop(course, assignments, acc) ==
    IF assignments = <<>> THEN [raised |-> None, list |-> acc]
    ELSE LET assignment == Head(assignments)
         IN  IF Qualifies(assignment)
             THEN IF HasKey(assignment, "points_possible")
                  THEN FilterLoop(course, Tail(assignments),
                                  Emit(acc, Record(course, assignment)))
                  ELSE [raised |-> Some("KeyError"), list |-> acc]
             ELSE FilterLoop(course, Tail(assignments), acc)

\* return CanvasResponse(success=True, data=missing_assignments)
FinalEnvelope(list) == CanvasResponse(TRUE, Some(list), None)

\* Faulty variant: a failed course list is answered like an empty one.
EmptySuccessOnFailure(resp) ==
    IF ~resp.success \/ resp.data[1] = <<>>
    THEN [pc |-> "done", result |-> Some(Return(FinalEnvelope(<<>>)))]
    ELSE [pc |-> "loop", result |-> None]

\* if not courses_response.success: return courses_response; then the loop,
\* which an empty course list leaves at once for the final return.
AfterCourses(resp) ==
    IF ~resp.success THEN [pc |-> "done", result |-> Some(Return(resp))]
    ELSE IF resp.data[1] = <<>>
         THEN [pc |-> "done", result |-> Some(Return(FinalEnvelope(<<>>)))]
         ELSE [pc |-> "loop", result |-> None]

\* History: the <<course id, assignment id>> of the assignments of one
\* response whose submission is flagged missing, in the response's order.
Flagged(course, assignments) ==
    LET IsFlagged(a) == /\ "submission" \in DOMAIN a
                        /\ "missing" \in DOMAIN a.submission
                        /\ a.submission.missing = TRUE
        sel == SelectSeq(assignments, IsFlagged)
    IN  [k \in 1..Len(sel) |-> <<course.id, sel[k].id>>]

AggIdle ==
    /\ pc = <<>> /\ institute_url = <<>> /\ token = <<>>
    /\ courses_response = <<>> /\ idx = <<>> /\ missing_assignments = <<>>
    /\ result = <<>> /\ calls = <<>> /\ failed = <<>> /\ upstream_missing = <<>>

\* The handlers of the requests R as FastAPI enters them.
AggInit(R) ==
    /\ pc = [r \in R |-> "start"]
    /\ courses_response = [r \in R |-> None]
    /\ idx = [r \in R |-> 0]
    /\ missing_assignments = [r \in R |-> <<>>]
    /\ result = [r \in R |-> None]
    /\ calls = [r \in R |-> <<>>]
    /\ failed = [r \in R |-> {}]
    /\ upstream_missing = [r \in R |-> <<>>]

\* Lines 113-123: the course-list call and what follows it up to the next
\* await or return.
AwaitCourses(r, outcome) ==
    /\ pc[r] = "start"
    /\ calls' = [calls EXCEPT ![r] = Append(@, CoursesCall(r))]
    /\ LET res == canvas_request(outcome)
       IN  IF res.raised # None
           THEN /\ pc' = [pc EXCEPT ![r] = "raised"]
                /\ result' = [result EXCEPT ![r] = Some(res)]
                /\ UNCHANGED courses_response
           ELSE LET next == AfterCourses(res.value[1])
                IN  /\ courses_response' = [courses_response EXCEPT ![r] = res.value]
                    /\ pc' = [pc EXCEPT ![r] = next.pc]
                    /\ result' = [result EXCEPT ![r] = next.result]
    /\ UNCHANGED <<institute_url, token, idx, missing_assignments, failed,
                   upstream_missing, gw, flt>>

\* Lines 125-152: one iteration of the for loop, and the final return when it
\* was the last one.
AwaitAssignments(r, outcome) ==
    /\ pc[r] = "loop"
    /\ LET courses == courses_response[r][1].data[1]
           course == courses[idx[r] + 1]
           res == canvas_request(outcome)
           last == idx[r] + 1 = Len(courses)
           finish(list) ==
               /\ missing_assignments' = [missing_assignments EXCEPT ![r] = list]
               /\ pc' = [pc EXCEPT ![r] = IF last THEN "done" ELSE "loop"]
               /\ result' = [result EXCEPT ![r] =
                                IF last THEN Some(Return(FinalEnvelope(list))) ELSE None]
       IN  /\ calls' = [calls EXCEPT ![r] = Append(@, AssignmentsCall(r, course))]
           /\ idx' = [idx EXCEPT ![r] = @ + 1]
           /\ IF res.raised # None
              THEN /\ pc' = [pc EXCEPT ![r] = "raised"]
                   /\ result' = [result EXCEPT ![r] = Some(res)]
                   /\ UNCHANGED <<missing_assignments, failed, upstream_missing>>
              ELSE IF ~res.value[1].success
              THEN /\ finish(missing_assignments[r])
                   /\ failed' = [failed EXCEPT ![r] = @ \cup {idx[r] + 1}]
                   /\ UNCHANGED upstream_missing
              ELSE LET f == FilterLoop(course, res.value[1].data[1],
                                       missing_assignments[r])
                   IN  /\ upstream_missing' =
                              [upstream_missing EXCEPT ![r] =
                                  @ \o Flagged(course, res.value[1].data[1])]
                       /\ UNCHANGED failed
                       /\ IF f.raised # None
                          THEN /\ missing_assignments' =
                                      [missing_assignments EXCEPT ![r] = f.list]
                               /\ pc' = [pc EXCEPT ![r] = "raised"]
                               /\ result' = [result EXCEPT ![r] =
                                                Some(Raise(f.raised[1]))]
                          ELSE finish(f.list)
    /\ UNCHANGED <<institute_url, token, courses_response, gw, flt>>

---------------------------------------------------------------------------
(* One run of the filter loop on one course's response *)

FltIdle == [pc |-> "idle", course |-> None, assignments |-> <<>>,
            raised |-> None, list |-> <<>>]

FltInit == flt \in {[pc |-> "ready", course |-> Some(c), assignments |-> l,
                     raised |-> None, list |-> <<>>] :
                    c \in Courses, l \in AssignmentLists}

\* Lines 138-150 on an empty missing_assignments.
FilterRun ==
    /\ flt.pc = "ready"
    /\ LET f == FilterLoop(flt.course[1], flt.assignments, <<>>)
       IN  flt' = [flt EXCEPT !.pc = IF f.raised = None THEN "done" ELSE "raised",
                              !.raised = f.raised, !.list = f.list]
    /\ UNCHANGED <<aggVars, gw>>

---------------------------------------------------------------------------
(* Specifications *)

\* One request against an upstream that answers each call in any way.
Init ==
    /\ AggInit({1})
    /\ \E u \in Urls, t \in Tokens :
          /\ (u = "https://a.example") = (t = "tokA")
          /\ institute_url = [r \in {1} |-> u]
          /\ token = [r \in {1} |-> t]
    /\ gw = GwIdle
    /\ flt = FltIdle

Next ==
    \/ \E r \in Requests, o \in CourseOutcomes : AwaitCourses(r, o)
    \/ \E r \in Requests, o \in AssignmentOutcomes : AwaitAssignments(r, o)

Spec == Init /\ [][Next]_vars

\* One direct call of canvas_request.
InitGateway == AggIdle /\ GwInit /\ flt = FltIdle

NextGateway ==
    \/ GwSend
    \/ \E o \in GwOutcomes : GwComplete(o)

SpecGateway == InitGateway /\ [][NextGateway]_vars

\* One run of the filter loop.
InitFilter == AggIdle /\ gw = GwIdle /\ FltInit

NextFilter == FilterRun

SpecFilter == InitFilter /\ [][NextFilter]_vars

---------------------------------------------------------------------------
(* Two requests on one event loop, against a fixed upstream *)

Hw(i, pts, flag) ==
    (IF i = 100 THEN [id |-> i, name |-> AssignmentName(i), due_at |-> "2024-01-01"]
                ELSE [id |-> i, name |-> AssignmentName(i)])
    @@ (IF pts THEN [submission |-> [workflow_state |-> "unsubmitted", missing |-> flag],
                     points_possible |-> 10]
               ELSE [submission |-> [workflow_state |-> "unsubmitted", missing |-> flag]])

Math == [id |-> 10, name |-> "Math"]

Bio == [id |-> 20, name |-> "Bio"]

Art == [id |-> 30, name |-> "Art"]

Http500 == [kind |-> "response", status |-> 500, json_ok |-> TRUE, body |-> <<>>]

Http401 == [kind |-> "response", status |-> 401, json_ok |-> TRUE, body |-> <<>>]

\* What the upstream at base address u answers to credential t for the course
\* list (course = 0) or for the assignments of a course.  Every account sees
\* its own courses and its own submission state.
World(u, t, course) ==
    IF u = "https://a.example" /\ t = "tokA" THEN
        CASE course = 0  -> OkOutcome(<<Math, Bio, Art>>)
          [] course = 10 -> OkOutcome(<<Hw(100, TRUE, TRUE), Hw(200, TRUE, FALSE)>>)
          [] course = 20 -> Http500
          [] OTHER       -> OkOutcome(<<Hw(200, TRUE, TRUE), Hw(100, TRUE, TRUE)>>)
    ELSE IF u = "https://a.example" /\ t = "tokB" THEN
        CASE course = 0  -> OkOutcome(<<Bio, Math>>)
          [] course = 20 -> OkOutcome(<<Hw(100, TRUE, TRUE)>>)
          [] course = 10 -> OkOutcome(<<Hw(200, FALSE, FALSE), Hw(100, TRUE, TRUE)>>)
          [] OTHER       -> Http500
    ELSE IF u = "https://b.example" /\ t = "tokA" THEN
        CASE course = 0  -> OkOutcome(<<Art, Math>>)
          [] course = 30 -> OkOutcome(<<Hw(200, TRUE, TRUE)>>)
          [] course = 10 -> OkOutcome(<<Hw(100, FALSE, TRUE)>>)
          [] OTHER       -> Http500
    ELSE
        CASE course = 0  -> Http401
          [] OTHER       -> Http401

WorldCourseIds == {0, 10, 20, 30}

WorldEndpoint(course) ==
    IF course = 0 THEN "courses"
    ELSE "courses/" \o ToString(course) \o "/assignments"

\* The upstream's answer to one HTTP request, read off the request's URL and
\* its Authorization header.
Upstream(http) ==
    LET hit == CHOOSE k \in Urls \X Tokens \X WorldCourseIds :
                   /\ http.url = k[1] \o "/api/v1/" \o WorldEndpoint(k[3])
                   /\ http.headers.Authorization = "Bearer " \o k[2]
    IN  World(hit[1], hit[2], hit[3])

\* What the handler returns or raises when it runs alone with these
\* arguments: courses still to take, missing_assignments so far.
RECURSIVE AloneLoop(_, _, _, _)
AloneLoop(u, t, courses, acc) ==
    IF courses = <<>> THEN Return(FinalEnvelope(acc))
    ELSE LET course == Head(courses)
             res == canvas_request(World(u, t, course.id))
         IN  IF res.raised # None THEN res
             ELSE IF ~res.value[1].success THEN AloneLoop(u, t, Tail(courses), acc)
             ELSE LET f == FilterLoop(course, res.value[1].data[1], acc)
                  IN  IF f.raised # None THEN Raise(f.raised[1])
                      ELSE AloneLoop(u, t, Tail(courses), f.list)

Alone(u, t) ==
    LET res == canvas_request(World(u, t, 0))
    IN  IF res.raised # None THEN res
        ELSE IF ~res.value[1].success THEN res
        ELSE AloneLoop(u, t, res.value[1].data[1], <<>>)

InitConc ==
    /\ AggInit({1, 2})
    /\ institute_url \in [{1, 2} -> Urls]
    /\ token \in [{1, 2} -> Tokens]
    /\ <<institute_url[1], token[1]>> # <<institute_url[2], token[2]>>
    /\ gw = GwIdle
    /\ flt = FltIdle

\* Each await is a point where the event loop may run the other handler.
NextConc ==
    \/ \E r \in Requests : AwaitCourses(r, Upstream(CoursesCall(r)))
    \/ \E r \in Requests :
          /\ pc[r] = "loop"
          /\ AwaitAssignments(r, Upstream(AssignmentsCall(r,
                 courses_response[r][1].data[1][idx[r] + 1])))

SpecConc == InitConc /\ [][NextConc]_vars

---------------------------------------------------------------------------
(* Properties *)

Finished(r) == pc[r] \in {"done", "raised"}

CoursesOk(r) == courses_response[r] # None /\ courses_response[r][1].success

CoursesFailed(r) == courses_response[r] # None /\ ~courses_response[r][1].success

CourseList(r) == courses_response[r][1].data[1]

Returned(r) == result[r] # None /\ result[r][1].raised = None

Envelope(r) == result[r][1].value[1]

\* C1: when the course-list call returns a failure envelope with error E, the
\* handler returns that very envelope, {success: false, data: null, error: E},
\* and the request issues no call besides the one for the course list.
C1_FailFast ==
    \A r \in Requests :
        CoursesFailed(r) =>
            /\ pc[r] = "done"
            /\ Returned(r)
            /\ Envelope(r) = courses_response[r][1]
            /\ Envelope(r).success = FALSE
            /\ Envelope(r).data = None
            /\ Envelope(r).error # None
            /\ calls[r] = <<CoursesCall(r)>>

\* A course-list call that timed out and the envelope returned for it.
C1_Witness ==
    \E r \in Requests :
        /\ CoursesFailed(r)
        /\ Returned(r)
        /\ Envelope(r).error = Some(Str("Timeout"))

\* C2: whatever courses' assignments calls fail, the handler ends by
\* returning success = true, every course of the list has been queried, the
\* failed courses contribute no record, and the records are exactly those of
\* the flagged assignments of the courses that answered.
C2_PartialFailureTolerated ==
    \A r \in Requests :
        (CoursesOk(r) /\ Finished(r) /\ failed[r] # {}) =>
            /\ Returned(r)
            /\ Envelope(r).success
            /\ Len(calls[r]) = 1 + Len(CourseList(r))
            /\ \A k \in 1..Len(Envelope(r).data[1]) : \A i \in failed[r] :
                   Envelope(r).data[1][k].course_id # CourseList(r)[i].id
            /\ [k \in 1..Len(Envelope(r).data[1]) |->
                   <<Envelope(r).data[1][k].course_id,
                     Envelope(r).data[1][k].assignment_id>>] = upstream_missing[r]

\* C3: after the filter loop has run on a response, missing_assignments holds
\* exactly one record for each assignment that carries a submission whose
\* missing flag is true, and none for any other assignment.
C3_OneRecordPerFlagged ==
    flt.pc \in {"done", "raised"} =>
        \A k \in 1..Len(flt.assignments) :
            LET a == flt.assignments[k]
                flagged == /\ "submission" \in DOMAIN a
                           /\ "missing" \in DOMAIN a.submission
                           /\ a.submission.missing = TRUE
                n == Cardinality({j \in 1..Len(flt.list) :
                                     /\ flt.list[j].assignment_id = a.id
                                     /\ flt.list[j].course_id = flt.course[1].id})
            IN  n = IF flagged THEN 1 ELSE 0

\* Position of the course with this id in the course list of request r.
CoursePos(r, id) == CHOOSE i \in 1..Len(CourseList(r)) : CourseList(r)[i].id = id

\* C4: in the returned list the records follow the order of their courses in
\* the course-list response and, within one course, the order of the
\* assignments in that course's response.
C4_ResultOrder ==
    \A r \in Requests :
        (pc[r] = "done" /\ CoursesOk(r)) =>
            LET data == Envelope(r).data[1]
            IN  /\ \A i, j \in 1..Len(data) :
                       i < j => CoursePos(r, data[i].course_id)
                                    <= CoursePos(r, data[j].course_id)
                /\ [k \in 1..Len(data) |->
                       <<data[k].course_id, data[k].assignment_id>>]
                       = upstream_missing[r]

\* Course list <<Art, ..., Math>>: Art answers HW2 before HW1, both flagged.
C4_Witness ==
    \E r \in Requests :
        /\ pc[r] = "done" /\ CoursesOk(r)
        /\ Len(Envelope(r).data[1]) = 3
        /\ LET data == Envelope(r).data[1]
           IN  /\ data[1].course_id = 30 /\ data[1].assignment_id = 200
               /\ data[2].course_id = 30 /\ data[2].assignment_id = 100
               /\ data[3].course_id = 10

\* The envelope a finished direct call returned.
GwEnvelope == gw.result[1].value[1]

GwReturned == gw.pc = "done" /\ gw.result[1].raised = None

\* C5: an envelope returned by canvas_request has either success = true and
\* error = null, or success = false and data = null, never both and never
\* neither; data is null on failure and error is set only on failure.
C5_EnvelopeExclusive ==
    GwReturned =>
        /\ (GwEnvelope.success /\ GwEnvelope.error = None)
               # (~GwEnvelope.success /\ GwEnvelope.data = None)
        /\ ~GwEnvelope.success => GwEnvelope.data = None
        /\ GwEnvelope.error # None => ~GwEnvelope.success

\* A failure envelope returned for an HTTP 500.
C5_Witness ==
    /\ GwReturned
    /\ ~GwEnvelope.success
    /\ gw.outcome[1].status = 500

\* C6: a call of canvas_request never raises: whatever the attempt meets, the
\* call returns an envelope, {success: false, data: null, error: text} for a
\* connection error, a timeout, an error status or an unparsable body, and
\* {success: true, data: body} otherwise.
C6_NeverRaises ==
    gw.pc = "done" =>
        /\ gw.result[1].raised = None
        /\ IF gw.outcome[1] \in FailureOutcomes
           THEN /\ GwEnvelope.success = FALSE
                /\ GwEnvelope.data = None
                /\ GwEnvelope.error # None
           ELSE GwEnvelope = [success |-> TRUE, data |-> Some(gw.outcome[1].body),
                              error |-> None]

\* A PUT whose connection failed has returned.
C6_Witness ==
    /\ GwReturned
    /\ gw.outcome[1].kind = "ConnectionError"
    /\ gw.args[1].method = "PUT"

\* C7: once the course-list call has succeeded the handler ends by returning
\* {success: true, data: list, error: null}; it never returns a failure
\* envelope and never raises.
C7_AlwaysSuccessAfterCourses ==
    \A r \in Requests :
        (CoursesOk(r) /\ Finished(r)) =>
            /\ Returned(r)
            /\ Envelope(r).success
            /\ Envelope(r).data # None
            /\ Envelope(r).error = None

\* C8: for every verb the request on the wire goes to
\* {base_address}/api/v1/{resource_path}, carries the bearer credential and
\* the caller's query parameters and, for POST and PUT, the caller's body.
C8_RequestConstruction ==
    gw.pc \in {"sent", "done"} =>
        /\ Len(gw.http) = 1
        /\ gw.http[1].verb = gw.args[1].method
        /\ gw.http[1].url = gw.args[1].institute_url \o "/api/v1/" \o gw.args[1].endpoint
        /\ gw.http[1].headers.Authorization = "Bearer " \o gw.args[1].token
        /\ gw.http[1].params = gw.args[1].params
        /\ gw.args[1].method \in {"POST", "PUT"} => gw.http[1].json = gw.args[1].data

\* C9: with two handlers interleaved for different (base address, credential)
\* pairs, every HTTP request of a handler goes to its own base address with
\* its own credential, and a handler ends as it would have ended alone.
C9_Stateless ==
    \A r \in Requests :
        /\ \A k \in 1..Len(calls[r]) :
               /\ calls[r][k].headers.Authorization = "Bearer " \o token[r]
               /\ \E c \in WorldCourseIds :
                      calls[r][k].url = institute_url[r] \o "/api/v1/" \o WorldEndpoint(c)
        /\ Finished(r) => result[r] = Some(Alone(institute_url[r], token[r]))

\* Both handlers have returned, with different tokens and different results.
C9_Witness ==
    /\ Requests = {1, 2}
    /\ Finished(1) /\ Finished(2)
    /\ Len(calls[1]) = 4 /\ Len(calls[2]) = 3
    /\ token[1] # token[2]
    /\ Returned(1) /\ Returned(2)
    /\ Len(Envelope(1).data[1]) = 3 /\ Len(Envelope(2).data[1]) = 2

\* C10: a request whose course list has N courses issues exactly 1 + N HTTP
\* requests: one GET of courses with enrollment_state=active, then one GET of
\* courses/{id}/assignments with include=submission per course, in order.
C10_CallCount ==
    \A r \in Requests :
        (CoursesOk(r) /\ Finished(r)) =>
            /\ Len(calls[r]) = 1 + Len(CourseList(r))
            /\ calls[r][1] = CoursesCall(r)
            /\ \A i \in 1..Len(CourseList(r)) :
                   calls[r][i + 1] = AssignmentsCall(r, CourseList(r)[i])

====
